---- MODULE Spec2Model ----
(***************************************************************************)
(* Model of the single-page portfolio site: the NavigationManager          *)
(* (hash-route dispatcher), the ContentLoader (cache-or-fetch wrapper) and *)
(* the part of the SearchManager that the navigation code drives.          *)
(*                                                                         *)
(* The browser runs one task (event handler) at a time and drains the      *)
(* microtask queue after each task.  A page load whose content is cached   *)
(* resumes in a microtask (stage "micro"); a page load that needs a fetch  *)
(* resumes when the fetch settles (stage "fetch"), and other tasks run in  *)
(* between.                                                                *)
(*                                                                         *)
(* Five specifications share the variables:                                *)
(*   Spec / FairSpec  the application driven by navigation events          *)
(*   LoaderSpec       the ContentLoader driven by direct calls             *)
(*   ThemeSpec        the ThemeManager and the legacy theme script         *)
(*   SearchSpec       the SearchManager: index, queries and the search UI  *)
(*   AppSpec          the ApplicationManager: snapshot and error handlers  *)
(***************************************************************************)
EXTENDS Integers, Sequences, FiniteSets, TLC

\* ---- bounds of the model ------------------------------------------------
MaxLoads == 2
MaxHistory == 2

\* ---- page identifiers ---------------------------------------------------
\* validPages of NavigationManager.validatePage
Pages == {"home", "blogs", "projects", "misc"}

\* identifiers outside the fixed set that a link, a hash or a caller may carry
InvalidIds == {"bogus"}

\* the identifiers the modelled user input carries: the default page, one
\* other valid page and one identifier outside the fixed set
LinkTargets == {"home", "blogs"} \cup InvalidIds

\* URL fragments the document may be opened with; "" is the absent fragment
Hashes == {""} \cup LinkTargets

\* top-level keys of CONTENT_DATA
ContentDataKeys == {"home", "blogs", "projects", "misc", "navigation", "site"}

\* a key of CONTENT_DATA that is not a page
StoreOnlyIds == {"navigation"}

\* every key the ContentLoader maps may be asked for
Ids == Pages \cup InvalidIds \cup StoreOnlyIds

\* the identifiers a direct caller of loadContentComponent passes: a page, a
\* store key that is not a page, an identifier the store does not have
CallerIds == {"home"} \cup StoreOnlyIds \cup InvalidIds

FetchIds == 1..MaxLoads

\* ---- markup / views -----------------------------------------------------
\* the markup the static HTML document ships in .content-container
InitialView == [kind |-> "initial", page |-> "none"]

\* ContentLoader.renderHomeContent / renderBlogsContent / ... (from CONTENT_DATA)
RenderStatic(page) == [kind |-> "static", page |-> page]

\* the text of a successfully fetched fragment content-<page>.html
FetchedFragment(page) == [kind |-> "fetched", page |-> page]

\* ContentLoader.generateErrorContent
generateErrorContent(page) == [kind |-> "unavailable", page |-> page]

\* NavigationManager.showLoadingState markup
LoadingView == [kind |-> "loading", page |-> "none"]

\* NavigationManager.renderErrorContent markup for Error("Invalid page: <page>")
ErrorView(page) == [kind |-> "error", page |-> page]

\* kinds of markup that show a page's content
PageKinds == {"static", "fetched", "unavailable"}

NoEntry == [kind |-> "absent", page |-> "none"]

VARIABLES
    currentPage,      \* NavigationManager.currentPage
    isLoading,        \* NavigationManager.isLoading
    content,          \* innerHTML of .content-container
    activeLink,       \* data-page of the .nav-link carrying class "active"
    title,            \* document.title, as the page it names
    history,          \* session history: sequence of entry states ("null" or a page)
    hidx,             \* index of the active session-history entry
    loads,            \* loadPageContent calls suspended at their await, in start order
    contentCache,     \* ContentLoader.contentCache
    loadingPromises,  \* ContentLoader.loadingPromises: page -> id of the pending fetch promise
    fetches,          \* outstanding fetchContentComponent calls: id -> page ("none" if free)
    contentIndex,     \* SearchManager.contentIndex, as the view it was built from
    lastOp,           \* the handler that ran last and what it observed
    theme,            \* ThemeManager.theme
    dataTheme,        \* data-theme attribute of document.documentElement
    storedTheme,      \* localStorage item 'theme'
    prefersDark,      \* window.matchMedia('(prefers-color-scheme: dark)')
    bodyDarkMode,     \* legacy script: body carries class "dark-mode"
    savedAtStartup,   \* the localStorage item as the constructor last found it
    userToggled,      \* the user has clicked .theme-toggle
    searchDoc,        \* headings and paragraphs of .content-container
    indexMap,         \* SearchManager.contentIndex, entry by entry in insertion order
    searchElement,    \* SearchManager.searchInput is an element (FALSE: null)
    searchInput,      \* value of .search-input
    searchThrew,      \* a SearchManager method has raised a TypeError
    resultsViews,     \* the .search-results elements in the document, oldest first
    noResultsViews,   \* number of .search-no-results elements in the document
    highlights,       \* the mark.search-highlight elements in .content-container
    appState,         \* localStorage item 'appState'
    clock,            \* Date.now(), in units of ClockUnit milliseconds
    scrollY,          \* window.pageYOffset
    pageCache,        \* NavigationManager.pageCache
    timers,           \* pending setTimeout(..., 100) scroll restorations, in order
    visibility,       \* the document: "visible", "hidden", or "closed" (unloaded)
    debug,            \* APP_CONFIG.debug
    errorShown,       \* window.__errorShown
    notifications     \* error notifications shown since the document was loaded

vars == <<currentPage, isLoading, content, activeLink, title, history, hidx,
          loads, contentCache, loadingPromises,
          fetches, contentIndex, lastOp,
          theme, dataTheme, storedTheme, prefersDark, bodyDarkMode,
          savedAtStartup, userToggled,
          searchDoc, indexMap, searchElement, searchInput, searchThrew,
          resultsViews, noResultsViews, highlights,
          appState, clock, scrollY, pageCache, timers, visibility, debug,
          errorShown, notifications>>

searchVars == <<searchDoc, indexMap, searchElement, searchInput, searchThrew,
                resultsViews, noResultsViews, highlights>>

appVars == <<appState, clock, scrollY, pageCache, timers, visibility, debug,
             errorShown, notifications>>

themeVars == <<theme, dataTheme, storedTheme, prefersDark, bodyDarkMode,
               savedAtStartup, userToggled>>

navVars == <<currentPage, isLoading, content, activeLink, title, history, hidx>>

\* ---- wiring ---------------------------------------------------------------
\* window.searchManager as seen by loadPageContent: the bootstrap code assigns
\* only window.appManager and window.APP_CONFIG, so the global is undefined
WindowSearchManager == FALSE

\* ---- NavigationManager helpers -------------------------------------------
\* variant: the membership test lost, every identifier passes
validatePage_AcceptsAll(page) == page \in Ids

\* NavigationManager.validatePage
validatePage(page) == page \in Pages

\* handleInitialPageLoad: const initialPage = hash || 'home'
InitialPage(hash) == IF hash = "" THEN "home" ELSE hash

\* popstate listener: e.state?.page || 'home'
PopStatePage(state) == IF state = "null" THEN "home" ELSE state

\* window.history.pushState({page}, '', '#page'): drops the forward entries
pushState(h, i, page) == Append(SubSeq(h, 1, i), page)

\* ---- ContentLoader helpers -----------------------------------------------
\* ContentLoader.setupContentCache
setupContentCache == [p \in Ids |-> IF p \in Pages THEN RenderStatic(p) ELSE NoEntry]

\* ContentLoader.generateFallbackContent
generateFallbackContent(page) ==
    IF page \notin ContentDataKeys THEN generateErrorContent(page)
    ELSE IF page \in Pages THEN RenderStatic(page)
    ELSE generateErrorContent(page)

\* variant: no catch block, a failed fetch rejects the promise
fetchContentComponent_NoCatch(page, ok) ==
    IF ok THEN FetchedFragment(page) ELSE [kind |-> "rejected", page |-> page]

\* fetchContentComponent: the fragment text when the response is ok, the
\* fallback markup on a transport error or a non-success status
fetchContentComponent(page, ok) ==
    IF ok THEN FetchedFragment(page) ELSE generateFallbackContent(page)

FreeFetchIds == {f \in FetchIds : fetches[f] = "none"}

NewFetchId == CHOOSE f \in FreeFetchIds : \A g \in FreeFetchIds : f <= g

\* loadContentComponent, synchronous part: where its caller is left suspended
\*   cache hit        -> resolved promise, caller resumes in a microtask
\*   pending promise  -> caller awaits that fetch
\*   otherwise        -> a new fetch is started and marked pending
LoaderStage(page) == IF contentCache[page] # NoEntry THEN "micro" ELSE "fetch"

LoaderFetch(page) ==
    IF contentCache[page] # NoEntry THEN 0
    ELSE IF loadingPromises[page] # 0 THEN loadingPromises[page]
    ELSE NewFetchId

LoaderCanStart(page) ==
    \/ contentCache[page] # NoEntry
    \/ loadingPromises[page] # 0
    \/ FreeFetchIds # {}

loadContentComponent(page) ==
    IF contentCache[page] = NoEntry /\ loadingPromises[page] = 0
    THEN /\ loadingPromises' = [loadingPromises EXCEPT ![page] = NewFetchId]
         /\ fetches' = [fetches EXCEPT ![NewFetchId] = page]
    ELSE UNCHANGED <<loadingPromises, fetches>>

\* ---- SearchManager helpers -----------------------------------------------
\* SearchManager.buildContentIndex: navigation links plus the headings and
\* paragraphs of the view currently in .content-container
buildContentIndex(view) ==
    [nav |-> TRUE, src |-> view, attached |-> TRUE, swapped |-> FALSE]

\* contentIndex.clear()
ClearedIndex(idx) ==
    [nav |-> FALSE, src |-> NoEntry, attached |-> TRUE, swapped |-> idx.swapped]

\* effect on the index of NavigationManager.renderContent: innerHTML is
\* replaced, so the elements the content entries point to leave the document
Detach(idx) == IF idx.src = NoEntry THEN idx ELSE [idx EXCEPT !.attached = FALSE]

\* loadPageContent lines 115-118: rebuild only if window.searchManager is set
IndexAfterPageRender(idx, view) ==
    IF WindowSearchManager THEN buildContentIndex(view)
    ELSE [Detach(idx) EXCEPT !.swapped = TRUE]

\* ---- ThemeManager helpers -------------------------------------------------
\* localStorage.getItem('theme') === null
Absent == "absent"

\* the values the code of this repository writes under the key 'theme':
\* ThemeManager.applyTheme ('light', 'dark'), the legacy script ('dark-mode')
StoredValues == {Absent, "light", "dark", "dark-mode"}

\* window.matchMedia: "none" when the browser lacks it, else what the
\* (prefers-color-scheme: dark) query matches
MediaStates == {"none", "dark", "light"}

\* e.matches ? 'dark' : 'light'
SystemTheme(media) == IF media = "dark" THEN "dark" ELSE "light"

\* variant: the system preference is consulted before the saved value
getInitialTheme_SystemFirst(saved, media) ==
    IF media = "dark" THEN "dark"
    ELSE IF saved # Absent THEN saved
    ELSE "light"

\* ThemeManager.getInitialTheme
getInitialTheme(saved, media) ==
    IF saved # Absent THEN saved
    ELSE IF media = "dark" THEN "dark"
    ELSE "light"

\* toggleTheme line 54
OtherTheme(t) == IF t = "light" THEN "dark" ELSE "light"

\* variant: the listener applies the system theme whatever is stored
SystemListenerApplies_Always(stored) == TRUE

\* setupSystemThemeListener line 87: !localStorage.getItem('theme')
SystemListenerApplies(stored) == stored = Absent

\* variant: the theme is not written to localStorage
applyTheme_NotPersisted(t) ==
    /\ dataTheme' = t
    /\ theme' = t
    /\ UNCHANGED storedTheme

\* ThemeManager.applyTheme(t): attribute, field and localStorage item
applyTheme(t) ==
    /\ dataTheme' = t
    /\ theme' = t
    /\ storedTheme' = t

\* after new ThemeManager() in a document whose storage holds 'saved' and whose
\* media query is in state 'media'; the legacy script has read the same item
ThemeInitFrom(saved, media) ==
    /\ savedAtStartup = saved
    /\ prefersDark = media
    /\ theme = getInitialTheme(saved, media)
    /\ dataTheme = getInitialTheme(saved, media)
    /\ storedTheme = getInitialTheme(saved, media)
    /\ bodyDarkMode = (saved = "dark-mode")
    /\ userToggled = FALSE

\* ---- strings: sequences of one-character strings --------------------------
UpperLetters == <<"A", "B", "C", "D", "E", "F", "G", "H", "I", "J", "K", "L", "M", "N", "O", "P", "Q", "R", "S", "T", "U", "V", "W", "X", "Y", "Z">>

LowerLetters == <<"a", "b", "c", "d", "e", "f", "g", "h", "i", "j", "k", "l", "m", "n", "o", "p", "q", "r", "s", "t", "u", "v", "w", "x", "y", "z">>

Range(s) == {s[i] : i \in 1..Len(s)}

\* String.prototype.toLowerCase, one character
toLowerCaseChar(c) ==
    IF c \in Range(UpperLetters)
    THEN LowerLetters[CHOOSE i \in 1..Len(UpperLetters) : UpperLetters[i] = c]
    ELSE c

\* String.prototype.toLowerCase
toLowerCase(s) == [i \in 1..Len(s) |-> toLowerCaseChar(s[i])]

\* the regular-expression class \s, as far as the modelled texts use it
IsSpace(c) == c = " "

\* the regular-expression class \w
IsWordChar(c) ==
    c \in Range(UpperLetters) \cup Range(LowerLetters)
            \cup {"0", "1", "2", "3", "4", "5", "6", "7", "8", "9", "_"}

\* String.prototype.trim
trim(s) ==
    LET keep == {i \in 1..Len(s) : ~IsSpace(s[i])}
    IN  IF keep = {} THEN <<>>
        ELSE SubSeq(s, CHOOSE i \in keep : \A j \in keep : i <= j,
                       CHOOSE i \in keep : \A j \in keep : j <= i)

\* String.prototype.includes
includes(s, t) ==
    \E i \in 0..(Len(s) - Len(t)) : SubSeq(s, i + 1, i + Len(t)) = t

\* String.prototype.startsWith
startsWith(s, t) == Len(t) <= Len(s) /\ SubSeq(s, 1, Len(t)) = t

\* String.prototype.substring(0, n)
substring(s, n) == SubSeq(s, 1, IF n < Len(s) THEN n ELSE Len(s))

\* .split(/\s+/): the maximal runs of non-space characters, in order (the
\* empty strings split yields at the ends are dropped by the length filter)
SplitWords(s) ==
    LET starts == {i \in 1..Len(s) : ~IsSpace(s[i]) /\ (i = 1 \/ IsSpace(s[i-1]))}
        EndOf(i) == CHOOSE j \in i..Len(s) :
                        /\ \A k \in i..j : ~IsSpace(s[k])
                        /\ (j = Len(s) \/ IsSpace(s[j+1]))
        Nth(k) == CHOOSE i \in starts : Cardinality({j \in starts : j < i}) = k - 1
    IN  [k \in 1..Cardinality(starts) |-> SubSeq(s, Nth(k), EndOf(Nth(k)))]

\* the filter callback of extractKeywords: word.length > 3
KeywordMinLength == 3

\* SearchManager.extractKeywords
extractKeywords(text) ==
    LET lower == toLowerCase(text)
        replaced == [i \in 1..Len(lower) |->
                        IF IsWordChar(lower[i]) \/ IsSpace(lower[i]) THEN lower[i]
                        ELSE " "]
        words == SelectSeq(SplitWords(replaced), LAMBDA w : Len(w) > KeywordMinLength)
        \* [...new Set(words)]: first occurrences, in order
        firsts == {i \in 1..Len(words) : \A j \in 1..(i-1) : words[j] # words[i]}
        Nth(k) == CHOOSE i \in firsts : Cardinality({j \in firsts : j < i}) = k - 1
    IN  [k \in 1..Cardinality(firsts) |-> words[Nth(k)]]

\* ---- the rendered document the SearchManager reads --------------------------
\* the .nav-link elements: label and data-page (CONTENT_DATA.navigation)
NavLinks ==
    << [text |-> <<"H", "o", "m", "e">>, page |-> "home"],
       [text |-> <<"B", "l", "o", "g", "s">>, page |-> "blogs"],
       [text |-> <<"P", "r", "o", "j", "e", "c", "t", "s">>, page |-> "projects"],
       [text |-> <<"M", "i", "s", "c">>, page |-> "misc"] >>

\* a paragraph longer than 100 characters whose last two words lie beyond them
LongParagraph ==
    <<"L", "o", "n", "g", " ", "f", "i", "l", "l", "e", "r", " ", "w", "o", "r", "d", "s", " ", "k", "e", "e", "p", " ", "g", "o", "i", "n", "g", " ", "o", "n", " ", "a", "n", "d", " ", "o", "n", " ", "u", "n", "t", "i", "l", " ", "t", "h", "e", " ", "t", "e", "x", "t", " ", "i", "s", " ", "w", "e", "l", "l", " ", "p", "a", "s", "t", " ", "o", "n", "e", " ", "h", "u", "n", "d", "r", "e", "d", " ", "c", "h", "a", "r", "a", "c", "t", "e", "r", "s", " ", "i", "n", " ", "l", "e", "n", "g", "t", "h", " ", "n", "o", "w", " ", "t", "a", "i", "l", " ", "m", "i", "s", "c", "e", "l", "l", "a", "n", "y">>

\* contents of .content-container the document may hold when the index is
\* built: headings (h1..h6) and paragraphs (p), in document order
Documents ==
    { [headings |-> << <<"M", "e", "n", "u">>, <<"M", "e", "t", "a">> >>,
       paragraphs |-> << <<"T", "o", "o", " ", "s", "h", "o", "r", "t">>, LongParagraph, <<"A", "n", "o", "t", "h", "e", "r", " ", "t", "a", "i", "l", " ", "o", "f", " ", "s", "o", "m", "e", " ", "t", "e", "x", "t", ".">> >>],
      [headings |-> << <<"B", "l", "o", "g", "s">>, <<" ", "L", "o", "g", " ", "m", "e", " ">> >>,
       paragraphs |-> << <<"N", "o", "t", "e", "s", " ", "f", "r", "o", "m", " ", "b", "l", "o", "g", "s", " ", "a", "n", "d", " ", "h", "o", "m", "e", " ", "p", "a", "g", "e", "s">> >>],
      [headings |-> << >>, paragraphs |-> << >>] }

\* ---- SearchManager.contentIndex as an insertion-ordered Map ------------------
MapHas(m, k) == \E i \in 1..Len(m) : m[i].key = k

\* Map.prototype.set: an existing key keeps its position, a new one is appended
MapSet(m, k, item) ==
    IF MapHas(m, k)
    THEN [i \in 1..Len(m) |-> IF m[i].key = k THEN [key |-> k, item |-> item] ELSE m[i]]
    ELSE Append(m, [key |-> k, item |-> item])

\* indexCurrentPageContent line 93: text.substring(0, 100) + '...'
SnippetLength == 100

\* buildContentIndex lines 42-56: the navigation links
IndexNavigation(m, links) ==
    LET F[i \in 0..Len(links)] ==
            IF i = 0 THEN m
            ELSE LET prev == F[i-1] IN
                 IF trim(links[i].text) # <<>> /\ links[i].page # ""
                 THEN MapSet(prev, toLowerCase(trim(links[i].text)),
                             [type |-> "navigation", text |-> trim(links[i].text),
                              page |-> links[i].page, element |-> <<"nav-link", i>>])
                 ELSE prev
    IN  F[Len(links)]

\* indexCurrentPageContent lines 70-81: the headings
IndexHeadings(m, hs) ==
    LET F[i \in 0..Len(hs)] ==
            IF i = 0 THEN m
            ELSE LET prev == F[i-1] IN
                 IF trim(hs[i]) # <<>>
                 THEN MapSet(prev, toLowerCase(trim(hs[i])),
                             [type |-> "heading", text |-> trim(hs[i]),
                              page |-> "none", element |-> <<"heading", i>>])
                 ELSE prev
    IN  F[Len(hs)]

\* variant: every keyword is set, also under a key the index has
AddKeywords_Overwrite(m, kws, item) ==
    LET F[i \in 0..Len(kws)] ==
            IF i = 0 THEN m
            ELSE LET prev == F[i-1] IN MapSet(prev, kws[i], item)
    IN  F[Len(kws)]

\* indexCurrentPageContent lines 89-98: the keywords of one paragraph
AddKeywords(m, kws, item) ==
    LET F[i \in 0..Len(kws)] ==
            IF i = 0 THEN m
            ELSE LET prev == F[i-1] IN
                 IF MapHas(prev, kws[i]) THEN prev
                 ELSE MapSet(prev, kws[i], item)
    IN  F[Len(kws)]

\* the test of line 87: text.length > 20
ParagraphMinLength == 20

\* indexCurrentPageContent lines 84-100: the paragraphs
IndexParagraphs(m, ps) ==
    LET F[i \in 0..Len(ps)] ==
            IF i = 0 THEN m
            ELSE LET prev == F[i-1] IN
                 IF Len(trim(ps[i])) > ParagraphMinLength
                 THEN \* const text, const keywords: each computed once
                      CHOOSE r \in
                          {AddKeywords(prev, keywords,
                                       [type |-> "content",
                                        text |-> substring(text, SnippetLength)
                                                     \o <<".", ".", ".">>,
                                        page |-> "none",
                                        element |-> <<"paragraph", i>>]) :
                               <<text, keywords>> \in
                                   {<<trim(ps[i]), extractKeywords(trim(ps[i]))>>}} : TRUE
                 ELSE prev
    IN  F[Len(ps)]

\* SearchManager.buildContentIndex on an index m (empty after construction or
\* contentIndex.clear())
BuildIndex(m, links, doc) ==
    IndexParagraphs(IndexHeadings(IndexNavigation(m, links), doc.headings),
                    doc.paragraphs)

\* variant: the index is not cleared before it is built again
rebuildIndex_NoClear(m, links, doc) == BuildIndex(m, links, doc)

\* SearchManager.rebuildIndex: contentIndex.clear() removes every entry, then
\* buildContentIndex
rebuildIndex(m, links, doc) ==
    BuildIndex(SelectSeq(m, LAMBDA e : FALSE), links, doc)

EmptyDocument == [headings |-> <<>>, paragraphs |-> <<>>]

\* variant: the listeners are added whether or not the input was found
setupEventListeners_Unguarded(element) == TRUE

\* SearchManager.setupEventListeners adds the listeners of the input and of the
\* button (TRUE) unless the input is null (line 122)
setupEventListeners(element) == element

\* new SearchManager() over the document doc, with (element) or without a
\* .search-input in it: init builds the index once
SearchInitFrom(doc, element) ==
    /\ searchDoc = doc
    /\ indexMap = BuildIndex(<<>>, NavLinks, doc)
    /\ searchElement = element
    /\ searchInput = <<>>
    /\ searchThrew = FALSE
    /\ resultsViews = <<>>
    /\ noResultsViews = 0
    /\ highlights = {}

\* ---- SearchManager: querying and the search UI -------------------------------
\* performSearch line 157: query.trim().length < 2
MinQueryLength == 2

\* variant: the length test without trim()
IsShortQuery_NoTrim(query) == query = <<>> \/ Len(query) < MinQueryLength

\* performSearch line 157: !query || query.trim().length < 2
IsShortQuery(query) == query = <<>> \/ Len(trim(query)) < MinQueryLength

\* performSearch line 162: query.toLowerCase().trim()
SearchTerm(query) == trim(toLowerCase(query))

\* calculateRelevance lines 200-212: the five increments
ExactScore == 10

PrefixScore == 5

SubstringScore == 3

NavigationBonus == 2

HeadingBonus == 1

\* variant: a prefix match adds nothing
calculateRelevance_NoPrefix(item, searchTerm) ==
    LET text == toLowerCase(item.text)
    IN  (IF text = searchTerm THEN ExactScore ELSE 0)
        + (IF includes(text, searchTerm) THEN SubstringScore ELSE 0)
        + (IF item.type = "navigation" THEN NavigationBonus ELSE 0)
        + (IF item.type = "heading" THEN HeadingBonus ELSE 0)

\* SearchManager.calculateRelevance
calculateRelevance(item, searchTerm) ==
    LET text == toLowerCase(item.text)
    IN  (IF text = searchTerm THEN ExactScore ELSE 0)
        + (IF startsWith(text, searchTerm) THEN PrefixScore ELSE 0)
        + (IF includes(text, searchTerm) THEN SubstringScore ELSE 0)
        + (IF item.type = "navigation" THEN NavigationBonus ELSE 0)
        + (IF item.type = "heading" THEN HeadingBonus ELSE 0)

\* variant: only the key is tested
IsCandidate_KeyOnly(entry, searchTerm) == includes(entry.key, searchTerm)

\* searchContent line 176: the test of the forEach callback
IsCandidate(entry, searchTerm) ==
    \/ includes(entry.key, searchTerm)
    \/ includes(toLowerCase(entry.item.text), searchTerm)

\* searchContent lines 178-181: { ...item, relevance }; the field key is not in
\* the program, it records which entry the result was made from
Result(entry, searchTerm) ==
    [type |-> entry.item.type, text |-> entry.item.text, page |-> entry.item.page,
     element |-> entry.item.element,
     relevance |-> calculateRelevance(entry.item, searchTerm),
     key |-> entry.key]

\* searchContent lines 173-183: the results array before it is sorted
Candidates(m, searchTerm) ==
    LET Test(e) == IsCandidate(e, searchTerm)
        hits == SelectSeq(m, Test)
    IN  [i \in 1..Len(hits) |-> Result(hits[i], searchTerm)]

\* variant: ascending order
SortByRelevance_Ascending(rs) ==
    LET Before(j, i) == \/ rs[j].relevance < rs[i].relevance
                        \/ rs[j].relevance = rs[i].relevance /\ j < i
        Rank(i) == Cardinality({j \in 1..Len(rs) : Before(j, i)}) + 1
    IN  [k \in 1..Len(rs) |-> rs[CHOOSE i \in 1..Len(rs) : Rank(i) = k]]

\* variant: descending, equal scores in reverse order
SortByRelevance_TiesReversed(rs) ==
    LET Before(j, i) == \/ rs[j].relevance > rs[i].relevance
                        \/ rs[j].relevance = rs[i].relevance /\ j > i
        Rank(i) == Cardinality({j \in 1..Len(rs) : Before(j, i)}) + 1
    IN  [k \in 1..Len(rs) |-> rs[CHOOSE i \in 1..Len(rs) : Rank(i) = k]]

\* searchContent line 186: results.sort((a, b) => b.relevance - a.relevance);
\* Array.prototype.sort is stable
SortByRelevance(rs) ==
    LET Before(j, i) == \/ rs[j].relevance > rs[i].relevance
                        \/ rs[j].relevance = rs[i].relevance /\ j < i
        Rank(i) == Cardinality({j \in 1..Len(rs) : Before(j, i)}) + 1
    IN  [k \in 1..Len(rs) |-> rs[CHOOSE i \in 1..Len(rs) : Rank(i) = k]]

\* SearchManager.searchContent
searchContent(m, searchTerm) == SortByRelevance(Candidates(m, searchTerm))

\* the search UI: the input's value, the results lists and no-results views
\* attached next to the input, the markers in the content area
SearchView ==
    [element |-> searchElement, input |-> searchInput, lists |-> resultsViews,
     none |-> noResultsViews, marks |-> highlights, threw |-> searchThrew]

\* SearchManager.clearSearchResults: querySelector finds the first element of
\* each class
clearSearchResults(v) ==
    [v EXCEPT !.lists = IF @ = <<>> THEN @ ELSE Tail(@),
              !.none = IF @ > 0 THEN @ - 1 ELSE @]

\* SearchManager.clearHighlights
clearHighlights(v) == [v EXCEPT !.marks = {}]

\* variant: the text of the input is kept
clearSearch_KeepsInput(v) == clearHighlights(clearSearchResults(v))

\* SearchManager.clearSearch: the value is written if (this.searchInput)
clearSearch(v) ==
    clearHighlights(clearSearchResults(
        [v EXCEPT !.input = IF v.element THEN <<>> ELSE @]))

\* highlightSearchTerm lines 350-376: a marker around the occurrences of the
\* term in every text node of .content-container that contains it (terms of
\* letters and spaces)
Markers(doc, searchTerm) ==
    LET nodes == {<<"heading", i>> : i \in 1..Len(doc.headings)}
                     \cup {<<"paragraph", i>> : i \in 1..Len(doc.paragraphs)}
        Text(n) == IF n[1] = "heading" THEN doc.headings[n[2]]
                   ELSE doc.paragraphs[n[2]]
    IN  {[node |-> n, term |-> searchTerm] :
            n \in {x \in nodes : includes(toLowerCase(Text(x)),
                                          toLowerCase(searchTerm))}}

\* SearchManager.highlightSearchTerm
highlightSearchTerm(v, searchTerm) ==
    IF searchTerm = <<>> THEN v
    ELSE [clearHighlights(v) EXCEPT !.marks = Markers(searchDoc, searchTerm)]

\* SearchManager.showNoResults; this.searchInput.parentNode of line 396 raises
\* a TypeError when the input is null
showNoResults(v) ==
    IF v.element THEN [clearSearchResults(v) EXCEPT !.none = @ + 1]
    ELSE [clearSearchResults(v) EXCEPT !.threw = TRUE]

\* variant: an empty list is rendered like any other
displaySearchResults_NoEmptyCase(v, results, searchTerm) ==
    highlightSearchTerm([clearSearchResults(v) EXCEPT !.lists = Append(@, results)],
                        searchTerm)

\* SearchManager.displaySearchResults; this.searchInput.parentNode of line 248
\* raises a TypeError when the input is null, before highlightSearchTerm
displaySearchResults(v, results, searchTerm) ==
    IF Len(results) = 0
    THEN showNoResults(clearSearchResults(v))
    ELSE IF v.element
    THEN highlightSearchTerm(
             [clearSearchResults(v) EXCEPT !.lists = Append(@, results)],
             searchTerm)
    ELSE [clearSearchResults(v) EXCEPT !.threw = TRUE]

\* SearchManager.performSearch
performSearch(v, query) ==
    IF IsShortQuery(query) THEN clearSearch(v)
    ELSE displaySearchResults(v, searchContent(indexMap, SearchTerm(query)),
                              SearchTerm(query))

\* main.js initializeApplication assigns window.appManager and
\* window.APP_CONFIG only: window.navigationManager stays undefined
WindowNavigationManager == FALSE

\* ---- ApplicationManager: state snapshot and error notifications --------------
\* localStorage.getItem('appState') === null
NoSnapshot == [kind |-> "absent"]

\* new ApplicationManager() and init() in a fresh document
AppInitFrom(dbg) ==
    /\ appState = NoSnapshot
    /\ clock = 0
    /\ scrollY = 0
    /\ pageCache = [p \in Pages |-> NoEntry]
    /\ timers = <<>>
    /\ visibility = "visible"
    /\ debug = dbg
    /\ errorShown = FALSE
    /\ notifications = 0

\* one step of the clock: half an hour, in milliseconds
TickMs == 30 * 60 * 1000

\* Date.now()
Now == clock * TickMs

\* restoreApplicationState line 263: const maxAge = 60 * 60 * 1000
maxAge == 60 * 60 * 1000

\* the object saveApplicationState stores under 'appState'
Snapshot ==
    [timestamp |-> Now, currentPage |-> currentPage, theme |-> theme,
     scrollPosition |-> scrollY]

\* restoreApplicationState line 264: Date.now() - state.timestamp > maxAge
SnapshotExpired(state) == Now - state.timestamp > maxAge

\* restoreApplicationState: the item it leaves in localStorage
StorageAfterRestore(item) ==
    IF item # NoSnapshot /\ SnapshotExpired(item) THEN NoSnapshot ELSE item

\* restoreApplicationState lines 270-274: the scroll restoration it schedules
RestoreTimers(item) ==
    IF item # NoSnapshot /\ ~SnapshotExpired(item) /\ item.scrollPosition # 0
    THEN <<item.scrollPosition>> ELSE <<>>

\* NavigationManager.handlePageShow: the scroll restoration it schedules
PageShowTimers ==
    IF pageCache[currentPage] # NoEntry /\ pageCache[currentPage].scrollPosition # 0
    THEN <<pageCache[currentPage].scrollPosition>> ELSE <<>>

\* ---- records ---------------------------------------------------------------
Op(type, page, accepted) ==
    [type |-> type, page |-> page, accepted |-> accepted]

Load(page, nav, stage, fetch, markup) ==
    [page |-> page, nav |-> nav, stage |-> stage, fetch |-> fetch,
     markup |-> markup]

\* the suspended call that loadPageContent(page) leaves behind
NewLoad(page, nav) ==
    Load(page, nav, LoaderStage(page), LoaderFetch(page),
         IF contentCache[page] # NoEntry THEN contentCache[page] ELSE NoEntry)

MicrotaskPending == \E i \in 1..Len(loads) : loads[i].stage \in {"micro", "rejected"}

\* a task (event handler) starts only when the microtask queue is empty
TaskCanRun == ~MicrotaskPending

\* ---- initial state: after new NavigationManager() and new SearchManager() --
InitFrom(initialHash) ==
    /\ currentPage = "home"
    /\ isLoading = FALSE
    /\ content = InitialView
    /\ title = "initial"
    /\ history = <<"null">>
    /\ hidx = 1
    /\ contentCache = setupContentCache
    /\ loadingPromises = [p \in Ids |-> 0]
    /\ fetches = [f \in FetchIds |-> "none"]
    /\ contentIndex = buildContentIndex(InitialView)
    /\ ThemeInitFrom(Absent, "light")
    /\ SearchInitFrom(EmptyDocument, TRUE)
    /\ AppInitFrom(FALSE)
    /\ lastOp = Op("init", InitialPage(initialHash), validatePage(InitialPage(initialHash)))
    /\ IF validatePage(InitialPage(initialHash))
       THEN /\ activeLink = InitialPage(initialHash)
            /\ loads = <<Load(InitialPage(initialHash), FALSE, "micro", 0,
                              setupContentCache[InitialPage(initialHash)])>>
       ELSE \* loadPageContent throws: an unhandled rejection, nothing rendered
            /\ activeLink = "initial"
            /\ loads = <<>>

Init == \E initialHash \in Hashes : InitFrom(initialHash)

\* ---- NavigationManager operations ----------------------------------------
\* variant: only the isLoading half of the guard
NavigateDropped_LoadingOnly(page) == isLoading

\* navigateToPage line 70: the call returns at once
NavigateDropped(page) == page = currentPage \/ isLoading

\* whether loadPageContent pushes a history entry (lines 98-101)
PushesHistory(updateHistory) == updateHistory

\* loadPageContent(page, updateHistory) up to its await, for a valid page:
\* pushState, updateNavigationState, loadContentComponent
loadPageContent(page, updateHistory, nav) ==
    /\ validatePage(page)
    /\ Len(loads) < MaxLoads
    /\ LoaderCanStart(page)
    /\ IF PushesHistory(updateHistory)
       THEN /\ hidx < MaxHistory
            /\ history' = pushState(history, hidx, page)
            /\ hidx' = hidx + 1
       ELSE UNCHANGED <<history, hidx>>
    /\ activeLink' = page
    /\ loadContentComponent(page)
    /\ loads' = Append(loads, NewLoad(page, nav))
    /\ UNCHANGED <<currentPage, title, contentCache>>

\* navigateToPage(page), up to the await of loadPageContent
navigateToPage(page) ==
    IF NavigateDropped(page)
    THEN /\ lastOp' = Op("navigate", page, FALSE)
         /\ UNCHANGED <<navVars, loads, contentCache,
                        loadingPromises, fetches, contentIndex>>
    ELSE /\ isLoading' = TRUE
         /\ content' = LoadingView
         /\ contentIndex' = Detach(contentIndex)
         /\ lastOp' = Op("navigate", page, TRUE)
         /\ IF validatePage(page)
            THEN loadPageContent(page, TRUE, TRUE)
            ELSE \* loadPageContent throws before any of its effects
                 /\ Len(loads) < MaxLoads
                 /\ loads' = Append(loads, Load(page, TRUE, "rejected", 0, NoEntry))
                 /\ UNCHANGED <<currentPage, activeLink, title, history, hidx,
                                contentCache, loadingPromises, fetches>>

\* click on a .nav-link carrying data-page = page
ClickNavLink(page) ==
    /\ TaskCanRun
    /\ navigateToPage(page)
    /\ UNCHANGED <<themeVars, searchVars, appVars>>

\* hashchange listener, with window.location.hash.slice(1) = hash; the
\* listener does nothing for an empty hash or the current page
HashChange(hash) ==
    /\ TaskCanRun
    /\ hash # ""
    /\ hash # currentPage
    /\ navigateToPage(hash)
    /\ UNCHANGED <<themeVars, searchVars, appVars>>

\* the user goes back or forward to session-history entry j: popstate listener
PopState(j) ==
    /\ TaskCanRun
    /\ j \in 1..Len(history)
    /\ j # hidx
    /\ validatePage(PopStatePage(history[j]))
    /\ Len(loads) < MaxLoads
    /\ LoaderCanStart(PopStatePage(history[j]))
    /\ hidx' = j
    /\ activeLink' = PopStatePage(history[j])
    /\ loadContentComponent(PopStatePage(history[j]))
    /\ loads' = Append(loads, NewLoad(PopStatePage(history[j]), FALSE))
    /\ lastOp' = Op("popstate", PopStatePage(history[j]), TRUE)
    /\ UNCHANGED <<currentPage, isLoading, content, title, history, contentCache, contentIndex>>
    /\ UNCHANGED <<themeVars, searchVars, appVars>>

\* ---- resumption of suspended loads ---------------------------------------
\* variant: the assignment to currentPage left out
ResolvedPage_NotRecorded(page) == currentPage

\* the page a resolved load records as current (loadPageContent line 110)
ResolvedPage(page) == page

\* variant: no finally block, the flag is never reset
LoadingAfter_NoFinally(nav, loading) == loading

\* isLoading once a resumed navigateToPage call has run its finally block
LoadingAfter(nav, loading) == IF nav THEN FALSE ELSE loading

\* loads left suspended once those in 'done' have resumed
Remaining(done) ==
    LET F[i \in 0..Len(loads)] ==
            IF i = 0 THEN <<>>
            ELSE IF i \in done THEN F[i-1] ELSE Append(F[i-1], loads[i])
    IN  F[Len(loads)]

\* loadPageContent after its await (lines 109-121), then navigateToPage's
\* finally block if the load was started by navigateToPage
ResolveLoads(done, markup) ==
    LET newest == CHOOSE i \in done : \A k \in done : k <= i
        page == loads[newest].page
        nav == \E i \in done : loads[i].nav
    IN  /\ content' = markup
        /\ currentPage' = ResolvedPage(page)
        /\ title' = page
        /\ contentIndex' = IndexAfterPageRender(contentIndex, markup)
        /\ isLoading' = LoadingAfter(nav, isLoading)
        /\ loads' = Remaining(done)
        /\ lastOp' = Op("resolve", page, nav)

\* microtask: a load whose content came from the cache resumes
ResumeCached ==
    \E i \in 1..Len(loads) :
        /\ loads[i].stage = "micro"
        /\ ResolveLoads({i}, loads[i].markup)
        /\ UNCHANGED <<activeLink, history, hidx, contentCache, loadingPromises,
                       fetches, themeVars, searchVars,
                   appVars>>

\* microtask: navigateToPage catches the error thrown by loadPageContent
\* (showErrorState) and runs its finally block
ResumeRejected ==
    \E i \in 1..Len(loads) :
        /\ loads[i].stage = "rejected"
        /\ content' = ErrorView(loads[i].page)
        /\ contentIndex' = Detach(contentIndex)
        /\ isLoading' = FALSE
        /\ loads' = SubSeq(loads, 1, i - 1) \o SubSeq(loads, i + 1, Len(loads))
        /\ lastOp' = Op("reject", loads[i].page, TRUE)
        /\ UNCHANGED <<currentPage, activeLink, title, history, hidx,
                       contentCache, loadingPromises, fetches, themeVars, searchVars,
                   appVars>>

\* the fetch with id f settles: loadContentComponent lines 67-70 run for the
\* call that started it, then every load awaiting it resumes
SettleFetch(f, ok) ==
    LET page == fetches[f]
        markup == fetchContentComponent(page, ok)
        done == {i \in 1..Len(loads) : loads[i].stage = "fetch" /\ loads[i].fetch = f}
    IN  /\ TaskCanRun
        /\ fetches[f] # "none"
        /\ contentCache' = [contentCache EXCEPT ![page] = markup]
        /\ loadingPromises' = [loadingPromises EXCEPT ![page] = 0]
        /\ fetches' = [fetches EXCEPT ![f] = "none"]
        /\ done # {}
        /\ ResolveLoads(done, markup)
        /\ UNCHANGED <<activeLink, history, hidx, themeVars, searchVars,
                   appVars>>

\* ---- ApplicationManager / SearchManager operations -------------------------
\* ApplicationManager.clearAllCaches: NavigationManager.clearCache ->
\* ContentLoader.clearCache, SearchManager.clearCache
ClearAllCaches ==
    /\ TaskCanRun
    /\ contentCache' = [p \in Ids |-> NoEntry]
    /\ loadingPromises' = [p \in Ids |-> 0]
    /\ contentIndex' = ClearedIndex(contentIndex)
    /\ lastOp' = Op("clearCache", "none", TRUE)
    /\ UNCHANGED <<navVars, loads, fetches, themeVars, searchVars,
                   appVars>>

\* SearchManager.performSearch with a query of two or more characters: it is
\* answered from contentIndex (searchContent)
PerformSearch ==
    /\ TaskCanRun
    /\ lastOp' = Op("search", "none", TRUE)
    /\ UNCHANGED <<navVars, loads, contentCache,
                   loadingPromises, fetches, contentIndex, themeVars, searchVars,
                   appVars>>

Next ==
    \/ \E page \in LinkTargets : ClickNavLink(page)
    \/ \E hash \in LinkTargets : HashChange(hash)
    \/ \E j \in 1..MaxHistory : PopState(j)
    \/ ResumeCached
    \/ ResumeRejected
    \/ \E f \in FetchIds, ok \in BOOLEAN : SettleFetch(f, ok)
    \/ ClearAllCaches
    \/ PerformSearch

Spec == Init /\ [][Next]_vars

\* the event loop drains the microtask queue after every task, and the task
\* queued by a fetch that settles is eventually run
FairSpec ==
    /\ Spec
    /\ WF_vars(ResumeCached)
    /\ WF_vars(ResumeRejected)
    /\ \A f \in FetchIds : SF_vars(\E ok \in BOOLEAN : SettleFetch(f, ok))

\* ---- the ContentLoader on its own -------------------------------------------
\* record of a loadContentComponent call that resolved: the markup it resolved
\* to and how ("cache": cache hit, "ok" / "failed": outcome of the fetch)
Loaded(page, markup, how) ==
    [type |-> "loaded", page |-> page, accepted |-> TRUE, markup |-> markup,
     how |-> how]

\* after new ContentLoader(): setupContentCache has run and the call made by
\* preloadCriticalContent is suspended at its cache hit
LoaderInit ==
    /\ currentPage = "home"
    /\ isLoading = FALSE
    /\ content = InitialView
    /\ activeLink = "initial"
    /\ title = "initial"
    /\ history = <<"null">>
    /\ hidx = 1
    /\ contentIndex = buildContentIndex(InitialView)
    /\ contentCache = setupContentCache
    /\ loadingPromises = [p \in Ids |-> 0]
    /\ fetches = [f \in FetchIds |-> "none"]
    /\ loads = <<Load("home", FALSE, "micro", 0, setupContentCache["home"])>>
    /\ ThemeInitFrom(Absent, "light")
    /\ SearchInitFrom(EmptyDocument, TRUE)
    /\ AppInitFrom(FALSE)
    /\ lastOp = Op("construct", "home", TRUE)

\* a caller invokes loadContentComponent(id) and awaits the result
CallLoadContentComponent(id) ==
    /\ TaskCanRun
    /\ Len(loads) < MaxLoads
    /\ LoaderCanStart(id)
    /\ loadContentComponent(id)
    /\ loads' = Append(loads, NewLoad(id, FALSE))
    /\ lastOp' = Op("call", id, TRUE)
    /\ UNCHANGED <<navVars, contentCache, contentIndex, themeVars, searchVars,
                   appVars>>

\* microtask: a caller whose call hit the cache receives the cached markup
CallerResumesCached ==
    \E i \in 1..Len(loads) :
        /\ loads[i].stage = "micro"
        /\ loads' = Remaining({i})
        /\ lastOp' = Loaded(loads[i].page, loads[i].markup, "cache")
        /\ UNCHANGED <<navVars, contentCache, loadingPromises, fetches,
                       contentIndex, themeVars, searchVars,
                   appVars>>

\* the fetch with id f settles: loadContentComponent lines 67-70 run for the
\* call that started it and every caller awaiting it receives the markup
CallersResumeSettled(f, ok) ==
    LET page == fetches[f]
        markup == fetchContentComponent(page, ok)
        done == {i \in 1..Len(loads) : loads[i].stage = "fetch" /\ loads[i].fetch = f}
    IN  /\ TaskCanRun
        /\ fetches[f] # "none"
        /\ contentCache' = [contentCache EXCEPT ![page] = markup]
        /\ loadingPromises' = [loadingPromises EXCEPT ![page] = 0]
        /\ fetches' = [fetches EXCEPT ![f] = "none"]
        /\ done # {}
        /\ loads' = Remaining(done)
        /\ lastOp' = Loaded(page, markup, IF ok THEN "ok" ELSE "failed")
        /\ UNCHANGED <<navVars, contentIndex, themeVars, searchVars,
                   appVars>>

\* ContentLoader.clearCache
LoaderClearCache ==
    /\ TaskCanRun
    /\ contentCache' = [p \in Ids |-> NoEntry]
    /\ loadingPromises' = [p \in Ids |-> 0]
    /\ lastOp' = Op("clearCache", "none", TRUE)
    /\ UNCHANGED <<navVars, loads, fetches, contentIndex, themeVars, searchVars,
                   appVars>>

LoaderNext ==
    \/ \E id \in CallerIds : CallLoadContentComponent(id)
    \/ CallerResumesCached
    \/ \E f \in FetchIds, ok \in BOOLEAN : CallersResumeSettled(f, ok)
    \/ LoaderClearCache

LoaderSpec == LoaderInit /\ [][LoaderNext]_vars


\* ---- the ThemeManager on its own --------------------------------------------
\* record of a toggleTheme call: the n-th of consecutive calls, and the
\* attribute and the persisted value before the first of them
ToggleOp(n, attr, stored) ==
    [type |-> "toggle", page |-> "none", accepted |-> TRUE, n |-> n,
     attr |-> attr, stored |-> stored]

\* after new ThemeManager(), for every stored value and media-query state the
\* document can be opened with; the other managers are left as constructed
ThemeInit ==
    /\ \E saved \in StoredValues, media \in MediaStates : ThemeInitFrom(saved, media)
    /\ SearchInitFrom(EmptyDocument, TRUE)
    /\ AppInitFrom(FALSE)
    /\ lastOp = Op("construct", "none", TRUE)
    /\ currentPage = "home"
    /\ isLoading = FALSE
    /\ content = InitialView
    /\ activeLink = "initial"
    /\ title = "initial"
    /\ history = <<"null">>
    /\ hidx = 1
    /\ contentIndex = buildContentIndex(InitialView)
    /\ contentCache = setupContentCache
    /\ loadingPromises = [p \in Ids |-> 0]
    /\ fetches = [f \in FetchIds |-> "none"]
    /\ loads = <<>>

\* click on .theme-toggle: toggleTheme
ToggleTheme ==
    /\ applyTheme(OtherTheme(theme))
    /\ userToggled' = TRUE
    /\ lastOp' = IF lastOp.type = "toggle" /\ lastOp.n = 1
                 THEN ToggleOp(2, lastOp.attr, lastOp.stored)
                 ELSE ToggleOp(1, dataTheme, storedTheme)
    /\ UNCHANGED <<prefersDark, bodyDarkMode, savedAtStartup>>
    /\ UNCHANGED <<navVars, loads, contentCache, loadingPromises, fetches,
                   contentIndex, searchVars, appVars>>

\* 'change' event of the dark-mode media query, now in state media
SystemThemeChange(media) ==
    /\ prefersDark # "none"
    /\ media \in {"dark", "light"}
    /\ media # prefersDark
    /\ prefersDark' = media
    /\ IF SystemListenerApplies(storedTheme)
       THEN applyTheme(SystemTheme(media))
       ELSE UNCHANGED <<theme, dataTheme, storedTheme>>
    /\ lastOp' = Op("systemChange", "none", SystemListenerApplies(storedTheme))
    /\ UNCHANGED <<bodyDarkMode, savedAtStartup, userToggled>>
    /\ UNCHANGED <<navVars, loads, contentCache, loadingPromises, fetches,
                   contentIndex, searchVars, appVars>>

\* legacy script: click on its toggle button, body.classList.toggle and the
\* localStorage item set to 'dark-mode' or removed
LegacyToggle ==
    /\ bodyDarkMode' = ~bodyDarkMode
    /\ storedTheme' = IF ~bodyDarkMode THEN "dark-mode" ELSE Absent
    /\ lastOp' = Op("legacyToggle", "none", TRUE)
    /\ UNCHANGED <<theme, dataTheme, prefersDark, savedAtStartup, userToggled>>
    /\ UNCHANGED <<navVars, loads, contentCache, loadingPromises, fetches,
                   contentIndex, searchVars, appVars>>

\* the document is loaded again: the legacy script reads the item, then
\* new ThemeManager() runs getInitialTheme and init
Reload ==
    /\ savedAtStartup' = storedTheme
    /\ bodyDarkMode' = (storedTheme = "dark-mode")
    /\ applyTheme(getInitialTheme(storedTheme, prefersDark))
    /\ lastOp' = Op("construct", "none", TRUE)
    /\ UNCHANGED <<prefersDark, userToggled>>
    /\ UNCHANGED <<navVars, loads, contentCache, loadingPromises, fetches,
                   contentIndex, searchVars, appVars>>

ThemeNext ==
    \/ ToggleTheme
    \/ \E media \in MediaStates \ {"none"} : SystemThemeChange(media)
    \/ LegacyToggle
    \/ Reload

ThemeSpec == ThemeInit /\ [][ThemeNext]_vars

\* ---- the SearchManager on its own -------------------------------------------
\* values the user gives the search input: empty, one character, padded with
\* spaces, mixed case, without any match, an extension of an earlier query
Queries ==
    { <<>>,
      <<"h">>,
      <<" ", "h", " ">>,
      <<"h", "o">>,
      <<"H", "O", "M", "E">>,
      <<" ", "H", "o", "m", "e", " ">>,
      <<"m", "e">>,
      <<"z", "z">>,
      <<"h", "o", "m", "e", "x">>,
      <<"t", "a", "i", "l">>,
      <<"b", "l", "o", "g", "s">>,
      <<"l", "o", "g">>,
      <<"M", "i", "s", "c">> }

\* innerWidth < 768 in handleResize
MobileBreakpoint == 768

\* what a search handler observed: the query it was given and whether any
\* search UI was on the page when it started
QueryOp(query, hadUI) == [type |-> "query", query |-> query, hadUI |-> hadUI]

\* the result a click selected and whether navigateToPage was called
SelectOp(result, navigated) ==
    [type |-> "select", result |-> result, navigated |-> navigated]

HasSearchUI == resultsViews # <<>> \/ noResultsViews > 0 \/ highlights # {}

ApplyView(v) ==
    /\ searchInput' = v.input
    /\ searchThrew' = v.threw
    /\ resultsViews' = v.lists
    /\ noResultsViews' = v.none
    /\ highlights' = v.marks

\* the other managers as constructed, with no navigation under way
IdleNavigation ==
    /\ currentPage = "home"
    /\ isLoading = FALSE
    /\ content = InitialView
    /\ activeLink = "initial"
    /\ title = "initial"
    /\ history = <<"null">>
    /\ hidx = 1
    /\ contentIndex = buildContentIndex(InitialView)
    /\ contentCache = setupContentCache
    /\ loadingPromises = [p \in Ids |-> 0]
    /\ fetches = [f \in FetchIds |-> "none"]
    /\ loads = <<>>

SearchInit ==
    /\ \E doc \in Documents : \E element \in BOOLEAN : SearchInitFrom(doc, element)
    /\ IdleNavigation
    /\ ThemeInitFrom(Absent, "light")
    /\ AppInitFrom(FALSE)
    /\ lastOp = Op("construct", "none", TRUE)

\* 'input' event of .search-input with the value query
InputEvent(query) ==
    /\ setupEventListeners(searchElement)
    /\ ApplyView(performSearch([SearchView EXCEPT !.input = query], query))
    /\ lastOp' = QueryOp(query, HasSearchUI)
    /\ UNCHANGED <<searchDoc, indexMap, searchElement>>
    /\ UNCHANGED <<navVars, loads, contentCache, loadingPromises, fetches,
                   contentIndex, themeVars, appVars>>

\* click on .search-button, or Enter in the input: performSearch(input.value)
SearchButtonClick ==
    /\ setupEventListeners(searchElement)
    /\ ApplyView(performSearch(SearchView, searchInput))
    /\ lastOp' = QueryOp(searchInput, HasSearchUI)
    /\ UNCHANGED <<searchDoc, indexMap, searchElement>>
    /\ UNCHANGED <<navVars, loads, contentCache, loadingPromises, fetches,
                   contentIndex, themeVars, appVars>>

\* Escape in the input: clearSearch
EscapeKey ==
    /\ setupEventListeners(searchElement)
    /\ ApplyView(clearSearch(SearchView))
    /\ lastOp' = Op("escape", "none", TRUE)
    /\ UNCHANGED <<searchDoc, indexMap, searchElement>>
    /\ UNCHANGED <<navVars, loads, contentCache, loadingPromises, fetches,
                   contentIndex, themeVars, appVars>>

\* click on the i-th item of a results list: handleResultClick(result); with
\* window.navigationManager undefined no navigation starts
ResultClick(l, i) ==
    /\ l \in 1..Len(resultsViews)
    /\ i \in 1..Len(resultsViews[l])
    /\ LET result == resultsViews[l][i]
       IN  lastOp' = SelectOp(result, /\ result.type = "navigation"
                                      /\ result.page # "none"
                                      /\ WindowNavigationManager)
    /\ ApplyView(clearSearch(SearchView))
    /\ UNCHANGED <<searchDoc, indexMap, searchElement>>
    /\ UNCHANGED <<navVars, loads, contentCache, loadingPromises, fetches,
                   contentIndex, themeVars, appVars>>

\* 'resize' of the window to innerWidth width: SearchManager.handleResize
WindowResize(width) ==
    /\ ApplyView(IF width < MobileBreakpoint THEN clearSearchResults(SearchView)
                 ELSE SearchView)
    /\ lastOp' = Op("resize", "none", width < MobileBreakpoint)
    /\ UNCHANGED <<searchDoc, indexMap, searchElement>>
    /\ UNCHANGED <<navVars, loads, contentCache, loadingPromises, fetches,
                   contentIndex, themeVars, appVars>>

\* SearchManager.clearCache
SearchClearCache ==
    /\ indexMap' = <<>>
    /\ ApplyView(clearSearch(SearchView))
    /\ lastOp' = Op("clearCache", "none", TRUE)
    /\ UNCHANGED <<searchDoc, searchElement>>
    /\ UNCHANGED <<navVars, loads, contentCache, loadingPromises, fetches,
                   contentIndex, themeVars, appVars>>

\* NavigationManager.renderContent: the markup of .content-container is
\* replaced, and with it the headings, the paragraphs and the markers in them;
\* the index and the views next to the input are left as they are
ContentChange(doc) ==
    /\ doc # searchDoc
    /\ searchDoc' = doc
    /\ highlights' = {}
    /\ lastOp' = Op("render", "none", TRUE)
    /\ UNCHANGED <<indexMap, searchElement, searchInput, searchThrew,
                   resultsViews, noResultsViews>>
    /\ UNCHANGED <<navVars, loads, contentCache, loadingPromises, fetches,
                   contentIndex, themeVars, appVars>>

\* SearchManager.rebuildIndex over the links and the content now rendered;
\* lastOp keeps the index the call found
RebuildIndex ==
    /\ indexMap' = rebuildIndex(indexMap, NavLinks, searchDoc)
    /\ lastOp' = [type |-> "rebuild", before |-> indexMap]
    /\ UNCHANGED <<searchDoc, searchElement, searchInput, searchThrew,
                   resultsViews, noResultsViews, highlights>>
    /\ UNCHANGED <<navVars, loads, contentCache, loadingPromises, fetches,
                   contentIndex, themeVars, appVars>>

\* Escape anywhere in the document, the shortcut of the ApplicationManager:
\* searchManager.clearSearch()
EscapeShortcut ==
    /\ ApplyView(clearSearch(SearchView))
    /\ lastOp' = Op("escapeShortcut", "none", TRUE)
    /\ UNCHANGED <<searchDoc, indexMap, searchElement>>
    /\ UNCHANGED <<navVars, loads, contentCache, loadingPromises, fetches,
                   contentIndex, themeVars, appVars>>

\* Ctrl/Cmd+K: focusSearchInput focuses and selects the input if
\* (this.searchInput), and isSearchFocused then compares document.activeElement
\* with it; lastOp keeps whether the input has the focus
FocusShortcut ==
    /\ lastOp' = Op("focus", "none", searchElement)
    /\ UNCHANGED searchVars
    /\ UNCHANGED <<navVars, loads, contentCache, loadingPromises, fetches,
                   contentIndex, themeVars, appVars>>

SearchNext ==
    \/ \E query \in Queries : InputEvent(query)
    \/ SearchButtonClick
    \/ EscapeKey
    \/ \E l \in 1..Len(resultsViews) : \E i \in 1..Len(resultsViews[l]) : ResultClick(l, i)
    \/ \E width \in {MobileBreakpoint - 1, MobileBreakpoint} : WindowResize(width)
    \/ SearchClearCache
    \/ \E doc \in Documents : ContentChange(doc)
    \/ RebuildIndex
    \/ EscapeShortcut
    \/ FocusShortcut

SearchSpec == SearchInit /\ [][SearchNext]_vars

\* ---- the ApplicationManager: snapshot and error handlers --------------------
\* ticks of the clock a behaviour may take
MaxTicks == 3

\* scroll restorations that may be pending at once
MaxTimers == 2

\* error notifications counted
MaxNotifications == 4

\* what the application's load found under 'appState'
LoadOp(found) == [type |-> "load", found |-> found]

AppInit ==
    /\ \E dbg \in BOOLEAN : AppInitFrom(dbg)
    /\ IdleNavigation
    /\ ThemeInitFrom(Absent, "light")
    /\ SearchInitFrom(EmptyDocument, TRUE)
    /\ lastOp = Op("construct", "none", TRUE)

\* the user scrolls the page: window.pageYOffset is 0 at the top
Scroll(y) ==
    /\ visibility = "visible"
    /\ y # scrollY
    /\ scrollY' = y
    /\ lastOp' = Op("scroll", "none", TRUE)
    /\ UNCHANGED <<appState, clock, pageCache, timers, visibility, debug,
                   errorShown, notifications>>
    /\ UNCHANGED <<navVars, loads, contentCache, loadingPromises, fetches,
                   contentIndex, themeVars, searchVars>>

\* 'visibilitychange' with document.hidden: ApplicationManager.handlePageHide
VisibilityHidden ==
    /\ visibility = "visible"
    /\ visibility' = "hidden"
    /\ appState' = Snapshot
    /\ pageCache' = [pageCache EXCEPT ![currentPage] =
                        [scrollPosition |-> scrollY, timestamp |-> Now]]
    /\ lastOp' = Op("hide", "none", TRUE)
    /\ UNCHANGED <<clock, scrollY, timers, debug, errorShown, notifications>>
    /\ UNCHANGED <<navVars, loads, contentCache, loadingPromises, fetches,
                   contentIndex, themeVars, searchVars>>

\* 'visibilitychange' with the document visible again:
\* ApplicationManager.handlePageShow
VisibilityVisible ==
    /\ visibility = "hidden"
    /\ Len(timers) + 2 <= MaxTimers
    /\ visibility' = "visible"
    /\ appState' = StorageAfterRestore(appState)
    /\ timers' = timers \o RestoreTimers(appState) \o PageShowTimers
    /\ lastOp' = Op("show", "none", TRUE)
    /\ UNCHANGED <<clock, scrollY, pageCache, debug, errorShown, notifications>>
    /\ UNCHANGED <<navVars, loads, contentCache, loadingPromises, fetches,
                   contentIndex, themeVars, searchVars>>

\* a setTimeout callback of a scroll restoration runs: window.scrollTo
TimerFires ==
    /\ visibility # "closed"
    /\ timers # <<>>
    /\ scrollY' = Head(timers)
    /\ timers' = Tail(timers)
    /\ lastOp' = Op("timer", "none", TRUE)
    /\ UNCHANGED <<appState, clock, pageCache, visibility, debug, errorShown,
                   notifications>>
    /\ UNCHANGED <<navVars, loads, contentCache, loadingPromises, fetches,
                   contentIndex, themeVars, searchVars>>

\* 'beforeunload': handleBeforeUnload saves the snapshot; the document and
\* its pending timers are gone afterwards
BeforeUnload ==
    /\ visibility # "closed"
    /\ visibility' = "closed"
    /\ appState' = Snapshot
    /\ timers' = <<>>
    /\ lastOp' = Op("unload", "none", TRUE)
    /\ UNCHANGED <<clock, scrollY, pageCache, debug, errorShown, notifications>>
    /\ UNCHANGED <<navVars, loads, contentCache, loadingPromises, fetches,
                   contentIndex, themeVars, searchVars>>

\* the site is opened again: initializeApplication, new ApplicationManager()
\* and init(), which does not call restoreApplicationState
ApplicationLoad ==
    /\ visibility = "closed"
    /\ visibility' = "visible"
    /\ scrollY' = 0
    /\ pageCache' = [p \in Pages |-> NoEntry]
    /\ errorShown' = FALSE
    /\ notifications' = 0
    /\ lastOp' = LoadOp(appState)
    /\ UNCHANGED <<appState, clock, timers, debug>>
    /\ UNCHANGED <<navVars, loads, contentCache, loadingPromises, fetches,
                   contentIndex, themeVars, searchVars>>

\* half an hour passes
Tick ==
    /\ clock < MaxTicks
    /\ clock' = clock + 1
    /\ lastOp' = Op("tick", "none", TRUE)
    /\ UNCHANGED <<appState, scrollY, pageCache, timers, visibility, debug,
                   errorShown, notifications>>
    /\ UNCHANGED <<navVars, loads, contentCache, loadingPromises, fetches,
                   contentIndex, themeVars, searchVars>>

\* an uncaught error: the 'error' listeners of main.js and of
\* ApplicationManager.setupErrorHandling both run
UncaughtError(hasMessage) ==
    /\ visibility # "closed"
    /\ notifications + 2 <= MaxNotifications
    /\ errorShown' = (errorShown \/ (~debug /\ hasMessage))
    /\ notifications' = notifications
                        + (IF ~debug /\ hasMessage /\ ~errorShown THEN 1 ELSE 0) + 1
    /\ lastOp' = Op("error", "none", hasMessage)
    /\ UNCHANGED <<appState, clock, scrollY, pageCache, timers, visibility, debug>>
    /\ UNCHANGED <<navVars, loads, contentCache, loadingPromises, fetches,
                   contentIndex, themeVars, searchVars>>

\* an unhandled promise rejection: the 'unhandledrejection' listeners of
\* main.js and of ApplicationManager.setupErrorHandling both run
UnhandledRejection ==
    /\ visibility # "closed"
    /\ notifications + 2 <= MaxNotifications
    /\ notifications' = notifications + (IF ~debug THEN 1 ELSE 0) + 1
    /\ lastOp' = Op("rejection", "none", TRUE)
    /\ UNCHANGED <<appState, clock, scrollY, pageCache, timers, visibility, debug,
                   errorShown>>
    /\ UNCHANGED <<navVars, loads, contentCache, loadingPromises, fetches,
                   contentIndex, themeVars, searchVars>>

AppNext ==
    \/ \E y \in {0, 400} : Scroll(y)
    \/ VisibilityHidden
    \/ VisibilityVisible
    \/ TimerFires
    \/ BeforeUnload
    \/ ApplicationLoad
    \/ Tick
    \/ \E hasMessage \in BOOLEAN : UncaughtError(hasMessage)
    \/ UnhandledRejection

AppSpec == AppInit /\ [][AppNext]_vars

\* ==== properties ============================================================

NavigateStep == lastOp'.type = "navigate"

\* C1: at any moment at most one page load is in flight, whether started by
\* navigateToPage, by a popstate event or by the initial load; a request that
\* arrives while a load is in flight is dropped and not started.
C1_AtMostOneLoadInFlight == Len(loads) <= 1

\* C2: page-load results apply in request order: once no load is in flight,
\* the rendered content and currentPage belong to the most recently started
\* load.  updateNavigationState runs when a load starts and nowhere else, so
\* activeLink names the page of the most recently started load.
C2_ResultsApplyInRequestOrder ==
    (Len(loads) = 0 /\ lastOp.type = "resolve")
        => (currentPage = activeLink /\ content.page = activeLink)

\* C3: navigateToPage(id) with id equal to currentPage is a no-op: no history
\* entry is pushed, the content container is not re-rendered, and currentPage,
\* isLoading, the active link and the document title are unchanged.
C3_NavigateToCurrentIsNoOp ==
    [][(NavigateStep /\ lastOp'.page = currentPage)
         => UNCHANGED <<history, hidx, content, currentPage, isLoading,
                        activeLink, title, loads>>]_vars

C3_Witness ==
    /\ lastOp.type = "navigate"
    /\ lastOp.page = currentPage
    /\ ~lastOp.accepted
    /\ ~isLoading
    /\ content.kind \in PageKinds

\* C4: for every valid page identifier, an accepted navigateToPage(id) followed
\* by the resolution of its content load leaves currentPage equal to id and the
\* content container holding that page's (non-empty) markup.
C4_NavigateThenResolve ==
    (lastOp.type = "resolve" /\ lastOp.accepted)
        => /\ lastOp.page \in Pages
           /\ currentPage = lastOp.page
           /\ content.kind \in PageKinds
           /\ content.page = lastOp.page

C4_Witness ==
    /\ lastOp.type = "resolve"
    /\ lastOp.accepted
    /\ currentPage = "blogs"
    /\ content = FetchedFragment("blogs")

\* C5 (as stated): a navigation request for an identifier outside the fixed
\* page set is rejected before any state mutation: visible content,
\* currentPage, history, active link and title are what they were before.
C5_RejectedBeforeAnyMutation ==
    [][(NavigateStep /\ lastOp'.page \notin Pages)
         => UNCHANGED <<content, currentPage, history, hidx, activeLink, title>>]_vars

\* C5 (amended): navigateToPage with an identifier outside the fixed page set
\* never changes currentPage, the history, the active link or the title; a
\* dropped call changes nothing, an accepted one shows the loading view and
\* then, when the rejection is caught, the error view, and returns to idle.
C5_RejectedKeepsNavigationState ==
    [][/\ (NavigateStep /\ lastOp'.page \notin Pages)
            => /\ UNCHANGED <<currentPage, history, hidx, activeLink, title>>
               /\ lastOp'.accepted => (content' = LoadingView /\ isLoading')
               /\ ~lastOp'.accepted => UNCHANGED <<content, isLoading>>
       /\ (lastOp'.type = "reject")
            => /\ UNCHANGED <<currentPage, history, hidx, activeLink, title>>
               /\ lastOp'.page \notin Pages
               /\ content'.kind = "error"
               /\ ~isLoading'
      ]_vars

C5_Witness ==
    /\ lastOp.type = "reject"
    /\ lastOp.page \notin Pages
    /\ content.kind = "error"
    /\ ~isLoading

\* C6: when a navigation fails (invalid identifier), an error view replaces
\* the content and neither the history nor the title is changed by it.
C6_FailureShowsErrorView ==
    /\ [](((lastOp.type = "init" /\ ~lastOp.accepted) \/ lastOp.type = "reject")
            => content.kind = "error")
    /\ [][(lastOp'.type = "reject" \/ (NavigateStep /\ lastOp'.page \notin Pages))
            => UNCHANGED <<history, hidx, title>>]_vars

\* C7: when the URL fragment is absent or is not a valid page identifier, the
\* initial load loads the home page and currentPage is home, with no error.
C7_InvalidFragmentDefaultsToHome ==
    (lastOp.type = "init" /\ lastOp.page \notin (Pages \ {"home"}))
        => /\ lastOp.accepted
           /\ currentPage = "home"
           /\ Len(loads) = 1
           /\ loads[1].page = "home"

\* C8: history entries are pushed only by accepted navigateToPage calls, one
\* entry carrying the identifier per accepted call for a valid identifier;
\* popstate events and the initial load re-enter the Loading state and load
\* the page without pushing an entry.
C8_HistoryPushedOnlyByNavigate ==
    /\ [][/\ (history' # history)
               => (NavigateStep /\ lastOp'.accepted /\ lastOp'.page \in Pages)
          /\ (NavigateStep /\ lastOp'.accepted /\ lastOp'.page \in Pages)
               => (history' = Append(SubSeq(history, 1, hidx), lastOp'.page)
                   /\ hidx' = hidx + 1)
          /\ (lastOp'.type = "popstate")
               => (history' = history /\ Len(loads') = Len(loads) + 1)
         ]_vars
    /\ []((lastOp.type \in {"popstate", "init"} /\ lastOp.accepted) => isLoading)

\* C9: every accepted navigation eventually returns the controller to idle,
\* on success and on error, provided the fetch settles; isLoading is only
\* reset by the resumption of the navigation that set it, and while it is set
\* every navigateToPage call is dropped.
C9_LoadingEventuallyIdle ==
    /\ isLoading ~> ~isLoading
    /\ [][/\ (isLoading /\ ~isLoading')
               => (lastOp'.type \in {"resolve", "reject"} /\ lastOp'.accepted)
          /\ (isLoading /\ NavigateStep)
               => (~lastOp'.accepted /\ UNCHANGED <<navVars, loads>>)
         ]_vars

C9_Witness ==
    /\ lastOp.type = "resolve"
    /\ lastOp.accepted
    /\ ~isLoading
    /\ content.kind = "fetched"

\* C10: after every navigation that swaps the visible content, the search
\* index is rebuilt before any later search query is answered.
C10_IndexRebuiltBeforeSearch ==
    (lastOp.type = "search" /\ lastOp.accepted) => ~contentIndex.swapped

\* C11: in every state in which a search query or a result selection can be
\* processed (no handler or microtask is running), no search index entry
\* refers to a source element that has been removed from the document; this
\* includes the states where the loading view or an error view is shown.
C11_NoStaleIndexEntries == TaskCanRun => contentIndex.attached

\* C12: for every page identifier at most one content fetch is outstanding at
\* any time, and the callers that requested an identifier while its fetch was
\* pending all await that same fetch.
C12_OneFetchPerPage ==
    /\ \A f, g \in FetchIds :
          (fetches[f] # "none" /\ fetches[f] = fetches[g]) => f = g
    /\ \A i, j \in 1..Len(loads) :
          (loads[i].stage = "fetch" /\ loads[j].stage = "fetch"
              /\ loads[i].page = loads[j].page) => loads[i].fetch = loads[j].fetch

\* C13: a content cache entry is immutable once cached: after a value has been
\* stored for a page identifier, only the explicit clear changes the value
\* stored for that identifier.
C13_CacheEntryImmutable ==
    [][\A p \in Ids :
         (contentCache[p] # NoEntry /\ contentCache'[p] # contentCache[p])
            => (lastOp'.type = "clearCache" /\ contentCache'[p] = NoEntry)]_vars

C15_FetchedFragmentPreferred ==
    /\ \A p \in Ids : contentCache[p].kind # "static"
    /\ [][\A p \in Ids :
            (contentCache'[p].kind = "static" /\ contentCache[p].kind # "static")
               => (lastOp'.type = "loaded" /\ lastOp'.how = "failed"
                   /\ lastOp'.page = p)]_vars
    /\ []((lastOp.type = "loaded" /\ lastOp.how = "ok")
            => lastOp.markup = [kind |-> "fetched", page |-> lastOp.page])

\* C16: toggling the theme twice returns to the original state: for every
\* theme value the controller holds after initialization (attribute and
\* persisted value equal to it), two consecutive toggleTheme calls restore
\* the original document-level attribute and the original persisted value.
C16_ToggleTwiceRestores ==
    (lastOp.type = "toggle" /\ lastOp.n = 2 /\ lastOp.attr = lastOp.stored)
        => (dataTheme = lastOp.attr /\ storedTheme = lastOp.stored)

\* C17: the theme state is always one of the two values light or dark: the
\* in-memory theme, the applied document attribute and the persisted value
\* (when one is persisted) are each light or dark, whatever was stored under
\* the key before.
C17_ThemeIsLightOrDark ==
    /\ theme \in {"light", "dark"}
    /\ dataTheme \in {"light", "dark"}
    /\ storedTheme \in {"light", "dark", Absent}

\* C18: while the user has never toggled the theme and no preference was
\* persisted before startup, a change of the OS-level dark-mode preference
\* re-applies the theme, so that the applied theme follows the new preference.
C18_FollowsSystemUntilToggled ==
    [][(lastOp'.type = "systemChange" /\ ~userToggled /\ savedAtStartup = Absent)
         => /\ dataTheme' = (IF prefersDark' = "dark" THEN "dark" ELSE "light")
            /\ theme' = dataTheme']_vars

\* C19: once the user has toggled the theme explicitly, no later OS-level
\* preference change alters the in-memory theme, the applied attribute or the
\* persisted value, for as long as the persisted value is not cleared.
C19_ToggleOverridesSystem ==
    [][(lastOp'.type = "systemChange" /\ userToggled /\ storedTheme # Absent)
         => UNCHANGED <<theme, dataTheme, storedTheme>>]_vars

C19_Witness ==
    /\ lastOp.type = "systemChange"
    /\ userToggled
    /\ storedTheme = "light"
    /\ dataTheme = "light"
    /\ prefersDark = "dark"

\* C20: the initial theme is chosen by strict priority: the persisted
\* preference if one exists, otherwise dark if the OS-level dark-mode query
\* matches, otherwise light; it is the theme held and applied after startup.
C20_InitialThemePriority ==
    (lastOp.type = "construct")
        => /\ theme = (IF savedAtStartup # Absent THEN savedAtStartup
                       ELSE IF prefersDark = "dark" THEN "dark" ELSE "light")
           /\ dataTheme = theme

C20_Witness ==
    /\ lastOp.type = "construct"
    /\ savedAtStartup = "light"
    /\ prefersDark = "dark"
    /\ theme = "light"
    /\ dataTheme = "light"

\* the results list on the page (displaySearchResults lines 231-248), empty
\* when there is none
ShownResults ==
    IF resultsViews = <<>> THEN <<>> ELSE resultsViews[Len(resultsViews)]

\* C21: a query whose trimmed length is under two characters, the empty query
\* included, leaves no results list, no no-results view and no highlight
\* marker, whatever was displayed before
C21_ShortQueryClearsAll ==
    (lastOp.type = "query" /\ Len(trim(lastOp.query)) < 2)
        => /\ resultsViews = <<>>
           /\ noResultsViews = 0
           /\ highlights = {}

\* a query of three characters that trims to one, given while search UI was
\* displayed
C21_Witness ==
    /\ lastOp.type = "query"
    /\ Len(trim(lastOp.query)) < 2
    /\ Len(lastOp.query) > 2
    /\ lastOp.hadUI

\* C22: for a query that equals, case-insensitively, the label of a navigation
\* entry in the index, that entry is the first result and its score is
\* strictly greater than the score of every heading or content entry
C22_ExactNavigationLabelFirst ==
    (lastOp.type = "query" /\ Len(trim(lastOp.query)) >= 2)
        => LET t == toLowerCase(trim(lastOp.query))
           IN  \A n \in 1..Len(indexMap) :
                   (/\ indexMap[n].item.type = "navigation"
                    /\ toLowerCase(indexMap[n].item.text) = t)
                       => /\ ShownResults # <<>>
                          /\ ShownResults[1].key = indexMap[n].key
                          /\ ShownResults[1].type = "navigation"
                          /\ \A k \in 1..Len(indexMap) :
                                 indexMap[k].item.type \in {"heading", "content"}
                                     => calculateRelevance(indexMap[k].item, t)
                                            < ShownResults[1].relevance

\* the query is a navigation label and a content entry is among the results
C22_Witness ==
    /\ lastOp.type = "query"
    /\ Len(trim(lastOp.query)) >= 2
    /\ \E n \in 1..Len(indexMap) :
           /\ indexMap[n].item.type = "navigation"
           /\ toLowerCase(indexMap[n].item.text) = toLowerCase(trim(lastOp.query))
    /\ \E k \in 2..Len(ShownResults) : ShownResults[k].type \in {"heading", "content"}

\* C23: results are in order of non-increasing score, and results of equal
\* score are in the order in which their entries were inserted in the index
C23_OrderedByScoreStable ==
    lastOp.type = "query" =>
        \A l \in 1..Len(resultsViews) :
            LET rs == resultsViews[l]
                Position(r) == CHOOSE n \in 1..Len(indexMap) : indexMap[n].key = r.key
            IN  \A i, j \in 1..Len(rs) :
                    i < j => /\ rs[i].relevance >= rs[j].relevance
                             /\ rs[i].relevance = rs[j].relevance
                                    => Position(rs[i]) < Position(rs[j])

\* a list with two results of equal score and with a result that was moved in
\* front of an entry inserted before it
C23_Witness ==
    LET rs == IF lastOp.type = "query" THEN ShownResults ELSE <<>>
        Position(r) == CHOOSE n \in 1..Len(indexMap) : indexMap[n].key = r.key
    IN  /\ \E i, j \in 1..Len(rs) : i < j /\ rs[i].relevance = rs[j].relevance
        /\ \E i, j \in 1..Len(rs) : i < j /\ Position(rs[i]) > Position(rs[j])

\* C24: after a query of two or more characters has been processed, every
\* highlight marker in the content area wraps an occurrence of that query;
\* no marker of an earlier query remains, also when there are no results
C24_FreshQueryRemovesPriorMarkers ==
    (lastOp.type = "query" /\ Len(trim(lastOp.query)) >= 2)
        => \A m \in highlights : m.term = toLowerCase(trim(lastOp.query))

\* C25: selecting a navigation-type result calls navigateToPage with the
\* page of that result
C25_NavigationResultNavigates ==
    (lastOp.type = "select" /\ lastOp.result.type = "navigation")
        => lastOp.navigated

C29_RelevanceIsSumOfIncrements ==
    (lastOp.type = "query" /\ Len(trim(lastOp.query)) >= 2)
        => LET t == toLowerCase(trim(lastOp.query))
           IN  \A i \in 1..Len(ShownResults) :
                   LET r == ShownResults[i]
                       text == toLowerCase(r.text)
                       bonus == (IF r.type = "navigation" THEN 2 ELSE 0)
                                + (IF r.type = "heading" THEN 1 ELSE 0)
                   IN  /\ r.relevance = (IF text = t THEN 10 ELSE 0)
                                        + (IF startsWith(text, t) THEN 5 ELSE 0)
                                        + (IF includes(text, t) THEN 3 ELSE 0)
                                        + bonus
                       /\ (r.type = "navigation" /\ text = t) => r.relevance = 20
                       /\ ~includes(text, t) => r.relevance = bonus

\* the results hold a navigation entry whose label is the query and an entry
\* matched through its key only
C29_Witness ==
    /\ lastOp.type = "query"
    /\ Len(trim(lastOp.query)) >= 2
    /\ \E i \in 1..Len(ShownResults) :
           /\ ShownResults[i].type = "navigation"
           /\ toLowerCase(ShownResults[i].text) = toLowerCase(trim(lastOp.query))
    /\ \E i \in 1..Len(ShownResults) :
           ~includes(toLowerCase(ShownResults[i].text), toLowerCase(trim(lastOp.query)))

\* C30: for a query of two or more characters the results are exactly the
\* index entries whose key, or whose lowercased text, contains the lowercased
\* trimmed query
C30_ResultsAreExactlyTheMatches ==
    (lastOp.type = "query" /\ Len(trim(lastOp.query)) >= 2)
        => LET t == toLowerCase(trim(lastOp.query))
               matching == {n \in 1..Len(indexMap) :
                              \/ includes(indexMap[n].key, t)
                              \/ includes(toLowerCase(indexMap[n].item.text), t)}
           IN  /\ {ShownResults[i].key : i \in 1..Len(ShownResults)}
                      = {indexMap[n].key : n \in matching}
               /\ Len(ShownResults) = Cardinality(matching)

\* a query with a result matched by its key only, a result matched by its
\* text only, and an index entry that is no result
C30_Witness ==
    /\ lastOp.type = "query"
    /\ Len(trim(lastOp.query)) >= 2
    /\ LET t == toLowerCase(trim(lastOp.query))
       IN  /\ \E i \in 1..Len(ShownResults) :
                  /\ includes(ShownResults[i].key, t)
                  /\ ~includes(toLowerCase(ShownResults[i].text), t)
           /\ \E i \in 1..Len(ShownResults) :
                  /\ ~includes(ShownResults[i].key, t)
                  /\ includes(toLowerCase(ShownResults[i].text), t)
           /\ Len(ShownResults) < Len(indexMap)

\* C27: the snapshot saved on page hide or unload is restored on the next
\* application load when it is younger than one hour; one older than one hour
\* is removed from storage and nothing is restored from it
C27_SnapshotRestoredOnLoad ==
    (lastOp.type = "load" /\ lastOp.found # NoSnapshot)
        => /\ Now - lastOp.found.timestamp < 60 * 60 * 1000
                  => (lastOp.found.scrollPosition # 0
                          => \E i \in 1..Len(timers) :
                                 timers[i] = lastOp.found.scrollPosition)
           /\ Now - lastOp.found.timestamp > 60 * 60 * 1000
                  => appState = NoSnapshot /\ timers = <<>>

\* C28: over any sequence of uncaught errors and unhandled promise
\* rejections at most one error notification is shown
C28_AtMostOneErrorNotification == notifications <= 1

\* C36: when no page load is in flight, the link marked active, the page
\* whose content is displayed, the document title and currentPage all name
\* the same page
C36_NavigationStateConsistent ==
    (loads = <<>> /\ ~isLoading)
        => /\ activeLink = currentPage
           /\ content.kind \in PageKinds
           /\ content.page = currentPage
           /\ title = currentPage

\* C37: after every ThemeManager operation (construction, toggleTheme, an
\* applied system preference change) the theme field, the data-theme
\* attribute and the item stored under 'theme' are equal
C37_ThemeFieldAttributeStorageAgree ==
    (\/ lastOp.type \in {"construct", "toggle"}
     \/ lastOp.type = "systemChange" /\ lastOp.accepted)
        => /\ theme = dataTheme
           /\ dataTheme = storedTheme

\* a toggle that found the stored item different from the attribute
C37_Witness ==
    /\ lastOp.type = "toggle"
    /\ lastOp.n = 1
    /\ lastOp.stored # lastOp.attr

\* C34: a pending marker exists for an identifier exactly while a fetch for
\* that identifier is outstanding: it is removed when the fetch settles and
\* never while a fetch for the identifier is still outstanding
C34_PendingMarkerIffFetchOutstanding ==
    \A p \in Ids :
        (loadingPromises[p] # 0) <=> (\E f \in FetchIds : fetches[f] = p)

\* C38: a fallback is cached like a fetched fragment: the call whose fetch
\* failed leaves its fallback in the cache, a cached fallback stays until
\* clearCache, and a call that finds an entry starts no fetch; a failed fetch
\* is never retried
C38_FailedFetchNeverRetried ==
    /\ []((lastOp.type = "loaded" /\ lastOp.how = "failed")
            => contentCache[lastOp.page] = lastOp.markup)
    /\ [][\A p \in Ids :
            (/\ contentCache[p] = generateFallbackContent(p)
             /\ contentCache'[p] # contentCache[p])
                => lastOp'.type = "clearCache"]_vars
    /\ [][(lastOp'.type = "call" /\ contentCache[lastOp'.page] # NoEntry)
            => fetches' = fetches]_vars

\* C39: performSearch with a query shorter than two characters (after
\* trimming) also empties the text of the search input, so an input event
\* carrying one typed character leaves the input empty; a query of two or more
\* characters leaves the text of the input as it was
C39_ShortQueryEmptiesInput ==
    lastOp.type = "query"
        => IF IsShortQuery(lastOp.query)
           THEN searchInput = <<>>
           ELSE searchInput = lastOp.query

C39_Witness ==
    /\ lastOp.type = "query"
    /\ lastOp.query = <<"h">>
    /\ searchInput = <<>>

\* C33: rebuildIndex is wholesale: the index after a rebuild is the index a
\* fresh build over the rendered links and content produces, whatever the
\* index held before (the entries of other content, or nothing after
\* clearCache), and a second rebuild of unchanged content leaves it unchanged
C33_RebuildIsWholesale ==
    /\ [](lastOp.type = "rebuild"
            => indexMap = BuildIndex(<<>>, NavLinks, searchDoc))
    /\ [][(lastOp.type = "rebuild" /\ lastOp'.type = "rebuild")
            => indexMap' = indexMap]_vars

\* a rebuild that found the entries of other content, some of them under keys
\* the new content has as well and some under keys it has not
C33_Witness ==
    /\ lastOp.type = "rebuild"
    /\ searchDoc # EmptyDocument
    /\ \E n \in 1..Len(lastOp.before) :
           /\ lastOp.before[n].item.type # "navigation"
           /\ ~MapHas(indexMap, lastOp.before[n].key)
    /\ \E n \in 1..Len(lastOp.before) :
           /\ MapHas(indexMap, lastOp.before[n].key)
           /\ lastOp.before[n] \notin Range(indexMap)

\* C31: after an index build every navigation link with a non-empty label and
\* a page attribute is in the index as a navigation entry under its lowercased
\* label, whatever headings and paragraphs the content holds
C31_NavigationLinksIndexed ==
    lastOp.type \in {"construct", "rebuild"}
        => \A n \in 1..Len(NavLinks) :
               (trim(NavLinks[n].text) # <<>> /\ NavLinks[n].page # "")
                   => \E k \in 1..Len(indexMap) :
                          /\ indexMap[k].key = toLowerCase(trim(NavLinks[n].text))
                          /\ indexMap[k].item.type = "navigation"
                          /\ indexMap[k].item.page = NavLinks[n].page

\* C32: in a built index every keyword of a paragraph longer than twenty
\* characters has an entry; where a navigation link or a heading has that key
\* the entry is still theirs, and otherwise it is the entry of the first
\* paragraph, in document order, that has the keyword
C32_FirstParagraphOwnsKeyword ==
    lastOp.type \in {"construct", "rebuild"}
        => \A kws \in {[i \in 1..Len(searchDoc.paragraphs) |->
                          IF Len(trim(searchDoc.paragraphs[i])) > ParagraphMinLength
                          THEN Range(extractKeywords(trim(searchDoc.paragraphs[i])))
                          ELSE {}]} :
               \A i \in DOMAIN kws : \A k \in kws[i] :
                   \E n \in 1..Len(indexMap) :
                       /\ indexMap[n].key = k
                       /\ IF \/ \E l \in 1..Len(NavLinks) :
                                    /\ NavLinks[l].page # ""
                                    /\ trim(NavLinks[l].text) # <<>>
                                    /\ toLowerCase(trim(NavLinks[l].text)) = k
                             \/ \E h \in 1..Len(searchDoc.headings) :
                                    /\ trim(searchDoc.headings[h]) # <<>>
                                    /\ toLowerCase(trim(searchDoc.headings[h])) = k
                          THEN indexMap[n].item.type \in {"navigation", "heading"}
                          ELSE /\ indexMap[n].item.type = "content"
                               /\ indexMap[n].item.element[1] = "paragraph"
                               /\ k \in kws[indexMap[n].item.element[2]]
                               /\ \A j \in DOMAIN kws :
                                      k \in kws[j] => indexMap[n].item.element[2] <= j

\* a built index over content in which two indexed paragraphs share a keyword
\* and the entry of that keyword is the one of the earlier paragraph
C32_Witness ==
    /\ lastOp.type \in {"construct", "rebuild"}
    /\ \E i, j \in 1..Len(searchDoc.paragraphs) :
           /\ i < j
           /\ Len(trim(searchDoc.paragraphs[i])) > ParagraphMinLength
           /\ Len(trim(searchDoc.paragraphs[j])) > ParagraphMinLength
           /\ \E n \in 1..Len(indexMap) :
                  /\ indexMap[n].item.element = <<"paragraph", i>>
                  /\ indexMap[n].key \in Range(extractKeywords(trim(searchDoc.paragraphs[i])))
                  /\ indexMap[n].key \in Range(extractKeywords(trim(searchDoc.paragraphs[j])))

\* C35: without a search input no listener of the SearchManager is installed,
\* so no user event reaches performSearch and no search view appears, and the
\* operations other components call (clearSearch on Escape, focusSearchInput,
\* isSearchFocused, rebuildIndex, handleResize, clearCache) raise no error
C35_AbsentInputDisablesSearch ==
    ~searchElement
        => /\ lastOp.type \notin {"query", "select", "escape"}
           /\ ~searchThrew
           /\ searchInput = <<>>
           /\ resultsViews = <<>>
           /\ noResultsViews = 0

\* without the input the cache was cleared and the index then rebuilt over
\* content with headings and paragraphs
C35_Witness ==
    /\ ~searchElement
    /\ lastOp.type = "rebuild"
    /\ lastOp.before = <<>>
    /\ \E n \in 1..Len(indexMap) : indexMap[n].item.type = "content"

====
